---- MODULE Spec2Model ----
(***************************************************************************)
(* Model of onedrive_glycoshield.py: a sequential pipeline against the     *)
(* Microsoft Graph API (token, find-or-create of two folders, chunked      *)
(* upload of each file, invite), ending in one JSON record on stdout.      *)
(*                                                                         *)
(* Remote responses are inputs: every action draws the HTTP status (and,   *)
(* for the invite, the body) of each request it issues from a small set.   *)
(* The drive itself is modelled as far as the program's own requests       *)
(* change it: folder creation under the "rename" conflict policy and the   *)
(* item that an upload session leaves once its last byte range arrived.    *)
(***************************************************************************)
EXTENDS Integers, Sequences, FiniteSets, TLC

VARIABLES
    pc,                          \* position in main() / the harness
    files_overridden,            \* the command line gives --files
    files_to_upload,             \* args.files_to_upload
    sub_folder_name,             \* args.subfolder
    disk,                        \* local file system: path -> size, or Absent
    drive,                       \* remote drive: sequence of items, in listing order
    reqs,                        \* every remote request issued so far, with its answer
    token,                       \* bearer token held by main()
    glycoshield_id,              \* main(): id of the base folder
    subfolder_id,                \* main(): id of the sub folder
    file_index,                  \* position of the for loop of main() in files_to_upload
    filesize,                    \* upload_file: os.path.getsize measured before the loop
    start,                       \* upload_file: cursor of the chunk loop
    successfully_uploaded_files, \* main()
    share_link,                  \* main(): result of grant_folder_access
    stdout,                      \* records printed to standard output
    exit_code,                   \* process exit code, NoCode while running
    modified,                    \* files (by position) changed by another process while uploaded
    created,                     \* local paths the run has written (the dummy file)
    resolved                     \* harness: results of successive get_or_create_folder calls

vars == <<pc, files_overridden, files_to_upload, sub_folder_name, disk, drive, reqs, token,
          glycoshield_id, subfolder_id, file_index, filesize, start,
          successfully_uploaded_files, share_link, stdout, exit_code,
          modified, created, resolved>>

-----------------------------------------------------------------------------
(* Bounds of the model *)

MaxChunks == 2      \* local files are up to MaxChunks full windows (+1 byte) long
MaxFiles == 2       \* length of the input file list
MaxCalls == 2       \* harness: successive get_or_create_folder calls

-----------------------------------------------------------------------------
(* Program constants *)

chunk_size == 5 * 1024 * 1024
BASE_FOLDER_NAME == "GlycoShield"
DEFAULT_RECIPIENT_EMAILS == <<"simbiosyslab.neu@gmail.com">>
DEFAULT_FILES == <<"test_upload.txt">>
DEFAULT_SUBFOLDER == "public"
DummyFileSize == 27  \* len("This is a test upload file.")
ROOT == 0            \* the parent_id 'root'

Absent == -1         \* os.path.exists is False
NoId == -1
NoCode == -1
NoToken == ""
NoUrl == "None"

-----------------------------------------------------------------------------
(* Names.  A name is a text plus the numeric suffix the server appends     *)
(* when it renames on collision ("GlycoShield 1"); dup = 0 is the plain    *)
(* text.  str.lower() acts on the text.                                    *)

Name(t) == [text |-> t, dup |-> 0]
NoName == Name("")

LowerText(t) ==
    CASE t = "GlycoShield" -> "glycoshield"
      [] t = "GLYCOSHIELD" -> "glycoshield"
      [] t = "Public" -> "public"
      [] t = "PUBLIC" -> "public"
      [] t = "Results" -> "results"
      [] OTHER -> t

lower(n) == [text |-> LowerText(n.text), dup |-> n.dup]

-----------------------------------------------------------------------------
(* HTTP.  requests.Response.ok and raise_for_status() fail on 4xx and 5xx. *)

ok(status) == ~(400 <= status /\ status < 600)

TokenStatuses == {200, 401}
ListStatuses == {200, 404}
CreateStatuses == {201, 403}
SessionStatuses == {200, 404}
ChunkFailures == {204, 500}
InviteStatuses == {200, 403}

ACCESS_TOKEN == "access_token"
Headers_Empty(tok) == NoToken

Headers(tok) == tok          \* {"Authorization": f"Bearer {token}"}

(* One remote request and its answer: the status, and for the invite the  *)
(* "value" list of the body.                                               *)
Req(kind, auth, target, status) ==
    [kind |-> kind, auth |-> auth, target |-> target, status |-> status,
     folder_name |-> NoName, path |-> "", file |-> 0,
     first |-> 0, last |-> 0, total |-> 0,
     has_value |-> FALSE, value |-> <<>>]

TokenReq(status) == Req("token", NoToken, NoId, status)

ChildrenReq(headers, parent_id, folder_name, status) ==
    [Req("children", headers, parent_id, status) EXCEPT !.folder_name = folder_name]

CreateFolderReq(headers, parent_id, folder_name, status) ==
    [Req("create_folder", headers, parent_id, status) EXCEPT !.folder_name = folder_name]

SessionReq(headers, parent_id, path, file, status) ==
    [Req("create_upload_session", headers, parent_id, status)
        EXCEPT !.path = path, !.file = file]

ChunkHeadersAuth == NoToken  \* headers_chunk carries Content-Length and Content-Range only

ChunkReq(path, file, first, last, total, status) ==
    [Req("put_chunk", ChunkHeadersAuth, NoId, status)
        EXCEPT !.path = path, !.file = file,
               !.first = first, !.last = last, !.total = total]

InviteReq(headers, item_id, resp) ==
    [Req("invite", headers, item_id, resp.status)
        EXCEPT !.has_value = resp.has_value, !.value = resp.value]

-----------------------------------------------------------------------------
(* Exceptions.  SystemExit derives from BaseException, not from Exception. *)

Exc(type, text, status, path) ==
    [type |-> type, text |-> text, status |-> status, path |-> path]

NoExc == Exc("none", "", 0, "")
HTTPError(status) == Exc("HTTPError", "Client/Server Error", status, "")
IsException(e) == e.type \in {"HTTPError", "Exception", "FileNotFoundError"}

(* str(e): the message without the exception's type. *)
Str(e) == [text |-> e.text, status |-> e.status, path |-> e.path]

-----------------------------------------------------------------------------
(* The remote drive.  An item is [id, name, parent, folder]; new items get *)
(* the next free identifier and are listed last.                           *)

Item(id, name, parent, folder) ==
    [id |-> id, name |-> name, parent |-> parent, folder |-> folder]

Children(drv, parent_id) == SelectSeq(drv, LAMBDA it : it.parent = parent_id)

(* GET .../children?$filter=name eq '...': the children whose name equals  *)
(* the requested one (OneDrive compares names ignoring case); a server     *)
(* that does not honour $filter answers with all children.                 *)
Listing(drv, parent_id, folder_name, honoured) ==
    SelectSeq(Children(drv, parent_id),
              LAMBDA it : ~honoured \/ lower(it.name) = lower(folder_name))

NameTaken(drv, parent_id, n) ==
    \E i \in 1..Len(drv) :
        drv[i].parent = parent_id /\ lower(drv[i].name) = lower(n)

(* "@microsoft.graph.conflictBehavior": "rename": the first free variant   *)
(* of the name, "X", "X 1", "X 2", ...                                     *)
FreeName(drv, parent_id, folder_name) ==
    LET free == {k \in 0..Len(drv) :
                    ~NameTaken(drv, parent_id, [folder_name EXCEPT !.dup = k])}
        k0 == CHOOSE k \in free : \A j \in free : k <= j
    IN  [folder_name EXCEPT !.dup = k0]

NewId(drv) == Len(drv) + 1

ServerCreateFolder(drv, parent_id, folder_name) ==
    Append(drv, Item(NewId(drv), FreeName(drv, parent_id, folder_name), parent_id, TRUE))

(* "@microsoft.graph.conflictBehavior": "replace": the uploaded file takes *)
(* the place of an item of that name, or is added.                         *)
ServerStoreFile(drv, parent_id, file_name) ==
    IF \E i \in 1..Len(drv) : drv[i].parent = parent_id /\ lower(drv[i].name) = lower(file_name)
    THEN [i \in 1..Len(drv) |->
             IF drv[i].parent = parent_id /\ lower(drv[i].name) = lower(file_name)
             THEN Item(drv[i].id, file_name, parent_id, FALSE)
             ELSE drv[i]]
    ELSE Append(drv, Item(NewId(drv), file_name, parent_id, FALSE))

-----------------------------------------------------------------------------
(* get_access_token *)

get_access_token(status) ==
    IF ~ok(status)
    THEN [exc |-> Exc("SystemExit", "Token request failed", status, ""),
          token |-> NoToken, reqs |-> <<TokenReq(status)>>]
    ELSE [exc |-> NoExc, token |-> ACCESS_TOKEN, reqs |-> <<TokenReq(status)>>]

-----------------------------------------------------------------------------
(* get_or_create_folder *)

Matches_AnyItem(items, folder_name) ==
    SelectSeq(items, LAMBDA it : lower(it.name) = lower(folder_name))

(* The loop over the listing: the items that pass the test, in order. *)
Matches(items, folder_name) ==
    SelectSeq(items, LAMBDA it : lower(it.name) = lower(folder_name) /\ it.folder)

get_or_create_folder(drv, headers, parent_id, folder_name, find_status, honoured, create_status) ==
    LET find == ChildrenReq(headers, parent_id, folder_name, find_status)
        items == Listing(drv, parent_id, folder_name, honoured)
        found == Matches(items, folder_name)
        create == CreateFolderReq(headers, parent_id, folder_name, create_status)
    IN  IF ~ok(find_status)
        THEN [exc |-> HTTPError(find_status), id |-> NoId,
              drive |-> drv, reqs |-> <<find>>]
        ELSE IF found # <<>>
        THEN [exc |-> NoExc, id |-> found[1].id, drive |-> drv, reqs |-> <<find>>]
        ELSE IF ~ok(create_status)
        THEN [exc |-> Exc("SystemExit", "Failed to create folder", create_status, ""),
              id |-> NoId, drive |-> drv, reqs |-> <<find, create>>]
        ELSE [exc |-> NoExc, id |-> NewId(drv),
              drive |-> ServerCreateFolder(drv, parent_id, folder_name),
              reqs |-> <<find, create>>]

-----------------------------------------------------------------------------
(* grant_folder_access.  The answer of the invite call is its status and   *)
(* the "value" list of its body; a permission record may lack "link", and  *)
(* a link may lack "webUrl".                                               *)

Perm(has_link, webUrl) == [has_link |-> has_link, webUrl |-> webUrl]

Urls == {"https://share/1", "https://share/2"}

PermRecords ==
    {Perm(FALSE, NoUrl), Perm(TRUE, NoUrl)} \cup {Perm(TRUE, u) : u \in Urls}

InviteResponse(status, has_value, value) ==
    [status |-> status, has_value |-> has_value, value |-> value]

(* r.json().get("value", []) *)
JsonValue(resp) == IF resp.has_value THEN resp.value ELSE <<>>

(* permissions[0].get("link", {}).get("webUrl") *)
WebUrl(perm) == IF perm.has_link THEN perm.webUrl ELSE NoUrl

Falsy(link) == link \in {NoUrl, ""}

(* The returned string: a URL, or the placeholder naming the item. *)
Link(text, item) == [text |-> text, item |-> item]
NoLink == Link(NoUrl, NoId)
Placeholder(item_id) == Link("Access granted to item (no direct link returned)", item_id)

grant_folder_access_SoftEmpty(headers, item_id, resp) ==
    LET invite == InviteReq(headers, item_id, resp)
        permissions == JsonValue(resp)
    IN  IF ~ok(resp.status)
        THEN [exc |-> Exc("Exception", "Failed to grant access", resp.status, ""),
              link |-> NoLink, reqs |-> <<invite>>]
        ELSE IF permissions = <<>> \/ Falsy(WebUrl(permissions[1]))
        THEN [exc |-> NoExc, link |-> Placeholder(item_id), reqs |-> <<invite>>]
        ELSE [exc |-> NoExc, link |-> Link(WebUrl(permissions[1]), NoId), reqs |-> <<invite>>]

grant_folder_access_LastRecord(headers, item_id, resp) ==
    LET invite == InviteReq(headers, item_id, resp)
        permissions == JsonValue(resp)
        link == WebUrl(permissions[Len(permissions)])
    IN  IF ~ok(resp.status)
        THEN [exc |-> Exc("Exception", "Failed to grant access", resp.status, ""),
              link |-> NoLink, reqs |-> <<invite>>]
        ELSE IF permissions = <<>>
        THEN [exc |-> Exc("Exception",
                          "Invite sent, but no permission data was returned.", 0, ""),
              link |-> NoLink, reqs |-> <<invite>>]
        ELSE IF Falsy(link)
        THEN [exc |-> NoExc, link |-> Placeholder(item_id), reqs |-> <<invite>>]
        ELSE [exc |-> NoExc, link |-> Link(link, NoId), reqs |-> <<invite>>]

grant_folder_access(headers, item_id, resp) ==
    LET invite == InviteReq(headers, item_id, resp)
        permissions == JsonValue(resp)
        link == WebUrl(permissions[1])
    IN  IF ~ok(resp.status)
        THEN [exc |-> Exc("Exception", "Failed to grant access", resp.status, ""),
              link |-> NoLink, reqs |-> <<invite>>]
        ELSE IF permissions = <<>>
        THEN [exc |-> Exc("Exception",
                          "Invite sent, but no permission data was returned.", 0, ""),
              link |-> NoLink, reqs |-> <<invite>>]
        ELSE IF Falsy(link)
        THEN [exc |-> NoExc, link |-> Placeholder(item_id), reqs |-> <<invite>>]
        ELSE [exc |-> NoExc, link |-> Link(link, NoId), reqs |-> <<invite>>]

-----------------------------------------------------------------------------
(* upload_file *)

Min(a, b) == IF a <= b THEN a ELSE b
Max(a, b) == IF a >= b THEN a ELSE b

exists(dsk, path) == dsk[path] # Absent
getsize(dsk, path) == dsk[path]
basename(path) == path       \* the paths of the model have no directory part

upload_file_open_CheckAfterSession(dsk, headers, parent_id, path, file, status) ==
    LET session == SessionReq(headers, parent_id, basename(path), file, status)
    IN  IF ~ok(status)
        THEN [exc |-> HTTPError(status), filesize |-> 0, reqs |-> <<session>>]
        ELSE IF ~exists(dsk, path)
        THEN [exc |-> Exc("FileNotFoundError", "The specified file does not exist: ", 0, path),
              filesize |-> 0, reqs |-> <<session>>]
        ELSE [exc |-> NoExc, filesize |-> getsize(dsk, path), reqs |-> <<session>>]

(* Lines 145-156: the existence check, the upload session, the size. *)
upload_file_open(dsk, headers, parent_id, path, file, status) ==
    LET session == SessionReq(headers, parent_id, basename(path), file, status)
    IN  IF ~exists(dsk, path)
        THEN [exc |-> Exc("FileNotFoundError", "The specified file does not exist: ", 0, path),
              filesize |-> 0, reqs |-> <<>>]
        ELSE IF ~ok(status)
        THEN [exc |-> HTTPError(status), filesize |-> 0, reqs |-> <<session>>]
        ELSE [exc |-> NoExc, filesize |-> getsize(dsk, path), reqs |-> <<session>>]

(* len(f.read(chunk_size)) with the file position at pos *)
ReadLen(dsk, path, pos) == Min(chunk_size, Max(0, getsize(dsk, path) - pos))

ChunkEnd_OffByOne(first, len) == first + len

ChunkEnd(first, len) == first + len - 1

Accepted_AnyOk(status) == ok(status)

Accepted(status) == status \in {200, 201, 202}

LoopContinues_AtLeastOnce(first, size) == first <= size

LoopContinues(first, size) == first < size

upload_chunk_Swallow(dsk, path, file, first, size, status) ==
    LET last == ChunkEnd(first, ReadLen(dsk, path, first))
    IN  [exc |-> NoExc, start |-> last + 1,
         reqs |-> <<ChunkReq(basename(path), file, first, last, size, status)>>]

upload_chunk_NoAdvance(dsk, path, file, first, size, status) ==
    LET last == ChunkEnd(first, ReadLen(dsk, path, first))
        put == ChunkReq(basename(path), file, first, last, size, status)
    IN  IF ~Accepted(status)
        THEN [exc |-> Exc("Exception", "Chunk upload failed", status, ""),
              start |-> first, reqs |-> <<put>>]
        ELSE [exc |-> NoExc, start |-> first, reqs |-> <<put>>]

(* One iteration of the while loop: the request, and the cursor after it. *)
upload_chunk(dsk, path, file, first, size, status) ==
    LET len == ReadLen(dsk, path, first)
        last == ChunkEnd(first, len)
        put == ChunkReq(basename(path), file, first, last, size, status)
    IN  IF ~Accepted(status)
        THEN [exc |-> Exc("Exception", "Chunk upload failed", status, ""),
              start |-> first, reqs |-> <<put>>]
        ELSE [exc |-> NoExc, start |-> last + 1, reqs |-> <<put>>]

(* The upload endpoint: 202 while bytes are missing, then 201, or 200 when *)
(* the file replaces one of that name.                                     *)
ServerChunkStatus(drv, parent_id, file_name, last, total) ==
    IF last + 1 < total THEN 202
    ELSE IF NameTaken(drv, parent_id, file_name) THEN 200 ELSE 201

ServerAfterChunk(drv, parent_id, file_name, last, total, status) ==
    IF Accepted(status) /\ last + 1 >= total
    THEN ServerStoreFile(drv, parent_id, file_name)
    ELSE drv

-----------------------------------------------------------------------------
(* main() and the __main__ block *)

OutputData(sub_name, sub_id, uploaded, emails, link) ==
    [status |-> "success",
     base_folder |-> BASE_FOLDER_NAME,
     sub_folder |-> sub_name,
     sub_folder_id |-> sub_id,
     files_uploaded |-> uploaded,
     shared_with |-> emails,
     invite_link |-> link]

FailureData_WithProgress(e) ==
    [status |-> "failure", error |-> Str(e), files_uploaded |-> successfully_uploaded_files]

FailureData(e) == [status |-> "failure", error |-> Str(e)]

MainBlock_NoExitCode(e, output_data) ==
    IF e.type = "none" THEN [out |-> <<output_data>>, code |-> 0]
    ELSE IF IsException(e) THEN [out |-> <<FailureData(e)>>, code |-> 0]
    ELSE [out |-> <<>>, code |-> 1]

(* What the __main__ block prints to stdout and the exit code, for the way *)
(* main() ended: returned output_data, raised an Exception (caught), or    *)
(* raised SystemExit with a message (not caught by "except Exception":     *)
(* the interpreter prints the message to stderr and exits with 1).         *)
MainBlock(e, output_data) ==
    IF e.type = "none" THEN [out |-> <<output_data>>, code |-> 0]
    ELSE IF IsException(e) THEN [out |-> <<FailureData(e)>>, code |-> 1]
    ELSE [out |-> <<>>, code |-> 1]

-----------------------------------------------------------------------------
(* Inputs *)

Paths == {"test_upload.txt", "a.zip"}

SeqsUpTo(S, n) == UNION {[1..k -> S] : k \in 0..n}

(* nargs="+": at least one path *)
FileLists == SeqsUpTo(Paths, MaxFiles) \ {<<>>}

(* parser.parse_args(): the paths given with --files, or the default list *)
ParsedFiles(given) == IF given THEN FileLists ELSE {DEFAULT_FILES}

SubFolderNames == {DEFAULT_SUBFOLDER, "Public"}

(* Sizes around the window boundaries: 0, and k * chunk_size - 1,          *)
(* k * chunk_size, k * chunk_size + 1 for each k.                          *)
FileSizes ==
    {0} \cup {k * chunk_size + d : k \in 1..MaxChunks, d \in {-1, 0, 1}}

(* The local files: "a.zip" of any of the sizes, or missing; the default   *)
(* file as main() writes it, or missing.  A path that is not in the file   *)
(* list is never looked at and is left out.                                *)
DisksFor(files) ==
    {[p \in Paths |->
        IF \A i \in 1..Len(files) : files[i] # p THEN Absent
        ELSE IF p = "a.zip" THEN a ELSE t] :
        a \in FileSizes \cup {Absent}, t \in {Absent, DummyFileSize}}

(* Drives the run may find: at the root, items named like the base folder  *)
(* (a folder, a folder spelled in another case, a file); in a base folder, *)
(* items named like the sub folder; in a sub folder, a file to replace.    *)
Kind(text, folder) == [name |-> Name(text), folder |-> folder]
RootKinds == {Kind("GlycoShield", TRUE), Kind("glycoshield", TRUE), Kind("GlycoShield", FALSE)}
SubKinds == {Kind("public", TRUE), Kind("PUBLIC", TRUE), Kind("public", FALSE)}

InitDrives ==
    {<<>>}
    \cup {<<Item(1, a.name, ROOT, a.folder)>> : a \in RootKinds}
    \cup {<<Item(1, Name("GlycoShield"), ROOT, FALSE), Item(2, Name("glycoshield"), ROOT, TRUE)>>,
          <<Item(1, Name("glycoshield"), ROOT, TRUE), Item(2, Name("GlycoShield"), ROOT, TRUE)>>}
    \cup {<<Item(1, Name(BASE_FOLDER_NAME), ROOT, TRUE), Item(2, b.name, 1, b.folder)>> :
            b \in SubKinds}
    \cup {<<Item(1, Name(BASE_FOLDER_NAME), ROOT, TRUE),
            Item(2, Name(DEFAULT_SUBFOLDER), 1, TRUE),
            Item(3, Name("a.zip"), 2, FALSE)>>}

NoHarness == [parent |-> NoId, name |-> NoName, ids |-> <<>>, creates |-> <<>>]

Init ==
    /\ pc = "get_access_token"
    /\ files_overridden \in BOOLEAN
    /\ files_to_upload \in ParsedFiles(files_overridden)
    /\ sub_folder_name \in SubFolderNames
    /\ disk \in DisksFor(files_to_upload)
    /\ drive \in InitDrives
    /\ reqs = <<>>
    /\ token = NoToken
    /\ glycoshield_id = NoId
    /\ subfolder_id = NoId
    /\ file_index = 0
    /\ filesize = 0
    /\ start = 0
    /\ successfully_uploaded_files = <<>>
    /\ share_link = NoLink
    /\ stdout = <<>>
    /\ exit_code = NoCode
    /\ modified = {}
    /\ created = {}
    /\ resolved = NoHarness

-----------------------------------------------------------------------------
(* Actions of the pipeline *)

(* The process ends: what the __main__ block does with main()'s outcome. *)
Exit(e, output_data) ==
    LET m == MainBlock(e, output_data)
    IN  /\ stdout' = stdout \o m.out
        /\ exit_code' = m.code
        /\ pc' = "exited"

NoOutput == OutputData("", NoId, <<>>, <<>>, NoLink)

(* line 231 *)
GetAccessToken ==
    /\ pc = "get_access_token"
    /\ \E status \in TokenStatuses :
        LET r == get_access_token(status)
        IN  /\ reqs' = reqs \o r.reqs
            /\ IF r.exc = NoExc
               THEN /\ token' = r.token
                    /\ pc' = "base_folder"
                    /\ UNCHANGED <<stdout, exit_code>>
               ELSE /\ Exit(r.exc, NoOutput)
                    /\ UNCHANGED token
    /\ UNCHANGED <<files_overridden, files_to_upload, sub_folder_name, disk, drive, glycoshield_id,
                   subfolder_id, file_index, filesize, start,
                   successfully_uploaded_files, share_link, modified, created, resolved>>

(* line 235 *)
ResolveBaseFolder ==
    /\ pc = "base_folder"
    /\ \E find_status \in ListStatuses, honoured \in BOOLEAN, create_status \in CreateStatuses :
        LET r == get_or_create_folder(drive, Headers(token), ROOT, Name(BASE_FOLDER_NAME),
                                      find_status, honoured, create_status)
        IN  /\ reqs' = reqs \o r.reqs
            /\ drive' = r.drive
            /\ IF r.exc = NoExc
               THEN /\ glycoshield_id' = r.id
                    /\ pc' = "sub_folder"
                    /\ UNCHANGED <<stdout, exit_code>>
               ELSE /\ Exit(r.exc, NoOutput)
                    /\ UNCHANGED glycoshield_id
    /\ UNCHANGED <<files_overridden, files_to_upload, sub_folder_name, disk, token,
                   subfolder_id, file_index, filesize, start,
                   successfully_uploaded_files, share_link, modified, created, resolved>>

ResolveSubFolder_AtRoot ==
    /\ pc = "sub_folder"
    /\ \E find_status \in ListStatuses, honoured \in BOOLEAN, create_status \in CreateStatuses :
        LET r == get_or_create_folder(drive, Headers(token), ROOT,
                                      Name(sub_folder_name),
                                      find_status, honoured, create_status)
        IN  /\ reqs' = reqs \o r.reqs
            /\ drive' = r.drive
            /\ IF r.exc = NoExc
               THEN /\ subfolder_id' = r.id
                    /\ pc' = "prepare_files"
                    /\ UNCHANGED <<stdout, exit_code>>
               ELSE /\ Exit(r.exc, NoOutput)
                    /\ UNCHANGED subfolder_id
    /\ UNCHANGED <<files_overridden, files_to_upload, sub_folder_name, disk, token,
                   glycoshield_id, file_index, filesize, start,
                   successfully_uploaded_files, share_link, modified, created, resolved>>

(* line 238 *)
ResolveSubFolder ==
    /\ pc = "sub_folder"
    /\ \E find_status \in ListStatuses, honoured \in BOOLEAN, create_status \in CreateStatuses :
        LET r == get_or_create_folder(drive, Headers(token), glycoshield_id,
                                      Name(sub_folder_name),
                                      find_status, honoured, create_status)
        IN  /\ reqs' = reqs \o r.reqs
            /\ drive' = r.drive
            /\ IF r.exc = NoExc
               THEN /\ subfolder_id' = r.id
                    /\ pc' = "prepare_files"
                    /\ UNCHANGED <<stdout, exit_code>>
               ELSE /\ Exit(r.exc, NoOutput)
                    /\ UNCHANGED subfolder_id
    /\ UNCHANGED <<files_overridden, files_to_upload, sub_folder_name, disk, token,
                   glycoshield_id, file_index, filesize, start,
                   successfully_uploaded_files, share_link, modified, created, resolved>>

(* lines 244-247: the dummy file of the default file list *)
NeedsDummy(dsk, files) == files = DEFAULT_FILES /\ ~exists(dsk, "test_upload.txt")

DiskAfterDefault(dsk, files) ==
    IF NeedsDummy(dsk, files)
    THEN [dsk EXCEPT !["test_upload.txt"] = DummyFileSize]
    ELSE dsk

(* lines 244-249 *)
PrepareFiles ==
    /\ pc = "prepare_files"
    /\ disk' = DiskAfterDefault(disk, files_to_upload)
    /\ created' = IF NeedsDummy(disk, files_to_upload)
                  THEN created \cup {"test_upload.txt"} ELSE created
    /\ successfully_uploaded_files' = <<>>
    /\ file_index' = 1
    /\ pc' = "upload"
    /\ UNCHANGED <<files_overridden, files_to_upload, sub_folder_name, drive, reqs, token, glycoshield_id,
                   subfolder_id, filesize, start, share_link, stdout, exit_code,
                   modified, resolved>>

(* line 251: the for loop has another file *)
ForLoopHasNext(i, files) == i <= Len(files)

(* The chunk requests issued so far for the file at position i. *)
ChunksOf(i) == SelectSeq(reqs, LAMBDA r : r.kind = "put_chunk" /\ r.file = i)

(* A file that shrinks under the loop is read as empty windows for ever;   *)
(* the model follows the loop this many requests per file.                 *)
MaxChunkRequests == MaxChunks + 3

(* lines 251-254, upload_file lines 145-160 *)
UploadFileOpen ==
    /\ pc = "upload"
    /\ ForLoopHasNext(file_index, files_to_upload)
    /\ \E status \in SessionStatuses :
        LET r == upload_file_open(disk, Headers(token), subfolder_id,
                                  files_to_upload[file_index], file_index, status)
        IN  /\ reqs' = reqs \o r.reqs
            /\ IF r.exc = NoExc
               THEN /\ filesize' = r.filesize
                    /\ start' = 0
                    /\ pc' = "chunk"
                    /\ UNCHANGED <<stdout, exit_code>>
               ELSE /\ Exit(r.exc, NoOutput)
                    /\ UNCHANGED <<filesize, start>>
    /\ UNCHANGED <<files_overridden, files_to_upload, sub_folder_name, disk, drive, token, glycoshield_id,
                   subfolder_id, file_index, successfully_uploaded_files, share_link,
                   modified, created, resolved>>

(* upload_file lines 161-175: one iteration of the while loop *)
UploadChunk ==
    /\ pc = "chunk"
    /\ LoopContinues(start, filesize)
    /\ Len(ChunksOf(file_index)) < MaxChunkRequests
    /\ LET path == files_to_upload[file_index]
           file_name == Name(basename(path))
           last == ChunkEnd(start, ReadLen(disk, path, start))
       IN  \E status \in {ServerChunkStatus(drive, subfolder_id, file_name, last, filesize)}
                            \cup ChunkFailures :
             LET r == upload_chunk(disk, path, file_index, start, filesize, status)
             IN  /\ reqs' = reqs \o r.reqs
                 /\ drive' = ServerAfterChunk(drive, subfolder_id, file_name,
                                              last, filesize, status)
                 /\ IF r.exc = NoExc
                    THEN /\ start' = r.start
                         /\ UNCHANGED <<pc, stdout, exit_code>>
                    ELSE /\ Exit(r.exc, NoOutput)
                         /\ UNCHANGED start
    /\ UNCHANGED <<files_overridden, files_to_upload, sub_folder_name, disk, token, glycoshield_id,
                   subfolder_id, file_index, filesize, successfully_uploaded_files,
                   share_link, modified, created, resolved>>

(* upload_file line 177, main line 255: the loop ended, the file is counted *)
UploadFileDone ==
    /\ pc = "chunk"
    /\ ~LoopContinues(start, filesize)
    /\ successfully_uploaded_files' =
           Append(successfully_uploaded_files, files_to_upload[file_index])
    /\ file_index' = file_index + 1
    /\ pc' = "upload"
    /\ UNCHANGED <<files_overridden, files_to_upload, sub_folder_name, disk, drive, reqs, token,
                   glycoshield_id, subfolder_id, filesize, start, share_link,
                   stdout, exit_code, modified, created, resolved>>

(* Another process rewrites the file while it is being uploaded (after its *)
(* size was measured); once per file.                                      *)
ExternalModify ==
    /\ pc = "chunk"
    /\ file_index \notin modified
    /\ \E size \in FileSizes \ {getsize(disk, files_to_upload[file_index])} :
        disk' = [disk EXCEPT ![files_to_upload[file_index]] = size]
    /\ modified' = modified \cup {file_index}
    /\ UNCHANGED <<pc, files_overridden, files_to_upload, sub_folder_name, drive, reqs, token,
                   glycoshield_id, subfolder_id, file_index, filesize, start,
                   successfully_uploaded_files, share_link, stdout, exit_code,
                   created, resolved>>

(* Answers of the invite call: a failure; success without "value" or with *)
(* an empty one; success with one record, or with a second one after it.   *)
InviteResponses ==
    {InviteResponse(s, TRUE, <<>>) : s \in InviteStatuses}
    \cup {InviteResponse(200, FALSE, <<>>)}
    \cup {InviteResponse(200, TRUE, <<p>>) : p \in PermRecords}
    \cup {InviteResponse(200, TRUE, <<p, Perm(TRUE, "https://share/2")>>) : p \in PermRecords}

(* lines 259-273 and the __main__ block, lines 280-283 *)
GrantFolderAccess ==
    /\ pc = "upload"
    /\ ~ForLoopHasNext(file_index, files_to_upload)
    /\ \E resp \in InviteResponses :
        LET r == grant_folder_access(Headers(token), subfolder_id, resp)
        IN  /\ reqs' = reqs \o r.reqs
            /\ share_link' = r.link
            /\ Exit(r.exc, OutputData(sub_folder_name, subfolder_id,
                                      successfully_uploaded_files,
                                      DEFAULT_RECIPIENT_EMAILS, r.link))
    /\ UNCHANGED <<files_overridden, files_to_upload, sub_folder_name, disk, drive, token, glycoshield_id,
                   subfolder_id, file_index, filesize, start,
                   successfully_uploaded_files, modified, created, resolved>>

Next ==
    \/ GetAccessToken
    \/ ResolveBaseFolder
    \/ ResolveSubFolder
    \/ PrepareFiles
    \/ UploadFileOpen
    \/ UploadChunk
    \/ UploadFileDone
    \/ GrantFolderAccess

Spec == Init /\ [][Next]_vars

-----------------------------------------------------------------------------
(* upload_file on its own: a run that found both folders stands at the for *)
(* loop with one file to upload, and another process may rewrite the file  *)
(* while the chunk loop runs.                                              *)

FoundFolders ==
    <<Item(1, Name(BASE_FOLDER_NAME), ROOT, TRUE), Item(2, Name(DEFAULT_SUBFOLDER), 1, TRUE)>>

UploadInit ==
    /\ pc = "upload"
    /\ files_overridden = TRUE
    /\ files_to_upload \in {<<p>> : p \in Paths}
    /\ sub_folder_name = DEFAULT_SUBFOLDER
    /\ disk \in DisksFor(files_to_upload)
    /\ drive \in {FoundFolders, Append(FoundFolders, Item(3, Name("a.zip"), 2, FALSE))}
    /\ reqs = <<TokenReq(200),
                ChildrenReq(Headers(ACCESS_TOKEN), ROOT, Name(BASE_FOLDER_NAME), 200),
                ChildrenReq(Headers(ACCESS_TOKEN), 1, Name(DEFAULT_SUBFOLDER), 200)>>
    /\ token = ACCESS_TOKEN
    /\ glycoshield_id = 1
    /\ subfolder_id = 2
    /\ file_index = 1
    /\ filesize = 0
    /\ start = 0
    /\ successfully_uploaded_files = <<>>
    /\ share_link = NoLink
    /\ stdout = <<>>
    /\ exit_code = NoCode
    /\ modified = {}
    /\ created = {}
    /\ resolved = NoHarness

UploadNext ==
    \/ UploadFileOpen
    \/ UploadChunk
    \/ UploadFileDone
    \/ ExternalModify

UploadSpec == UploadInit /\ [][UploadNext]_vars

-----------------------------------------------------------------------------
(* get_or_create_folder on its own: successive calls with the same parent  *)
(* and name, nothing else touching the drive in between.                   *)

FolderParents(drv) == {ROOT} \cup {drv[i].id : i \in {j \in 1..Len(drv) : drv[j].folder}}

FolderNames == {Name(BASE_FOLDER_NAME), Name(DEFAULT_SUBFOLDER), Name("Public")}

FolderInit ==
    /\ pc = "resolve"
    /\ drive \in InitDrives
    /\ \E parent_id \in FolderParents(drive), folder_name \in FolderNames :
        resolved = [parent |-> parent_id, name |-> folder_name,
                    ids |-> <<>>, creates |-> <<>>]
    /\ files_overridden = FALSE
    /\ files_to_upload = DEFAULT_FILES
    /\ sub_folder_name = DEFAULT_SUBFOLDER
    /\ disk = [p \in Paths |-> Absent]
    /\ reqs = <<TokenReq(200)>>
    /\ token = ACCESS_TOKEN
    /\ glycoshield_id = NoId
    /\ subfolder_id = NoId
    /\ file_index = 0
    /\ filesize = 0
    /\ start = 0
    /\ successfully_uploaded_files = <<>>
    /\ share_link = NoLink
    /\ stdout = <<>>
    /\ exit_code = NoCode
    /\ modified = {}
    /\ created = {}

IssuesCreate(rs) == \E i \in 1..Len(rs) : rs[i].kind = "create_folder"

ResolveFolder ==
    /\ pc = "resolve"
    /\ Len(resolved.ids) < MaxCalls
    /\ \E find_status \in ListStatuses, honoured \in BOOLEAN, create_status \in CreateStatuses :
        LET r == get_or_create_folder(drive, Headers(token), resolved.parent, resolved.name,
                                      find_status, honoured, create_status)
        IN  /\ reqs' = reqs \o r.reqs
            /\ drive' = r.drive
            /\ IF r.exc = NoExc
               THEN /\ resolved' = [resolved EXCEPT !.ids = Append(@, r.id),
                                                    !.creates = Append(@, IssuesCreate(r.reqs))]
                    /\ UNCHANGED <<pc, stdout, exit_code>>
               ELSE /\ Exit(r.exc, NoOutput)
                    /\ UNCHANGED resolved
    /\ UNCHANGED <<files_overridden, files_to_upload, sub_folder_name, disk, token, glycoshield_id,
                   subfolder_id, file_index, filesize, start,
                   successfully_uploaded_files, share_link, modified, created>>

FolderNext == ResolveFolder

FolderSpec == FolderInit /\ [][FolderNext]_vars

-----------------------------------------------------------------------------
(* Properties *)

Terminated == pc = "exited"

(* The outcome of a request as the claims count it: a chunk is accepted by *)
(* 200, 201 or 202 only, any other call by a status below 400.             *)
ReqFailed(r) ==
    IF r.kind = "put_chunk" THEN r.status \notin {200, 201, 202} ELSE r.status >= 400

IsUploadReq(r) == r.kind \in {"create_upload_session", "put_chunk"}

ChunkLen(r) == r.last - r.first + 1

RECURSIVE SumLens(_)
SumLens(chunks) ==
    IF chunks = <<>> THEN 0 ELSE ChunkLen(Head(chunks)) + SumLens(Tail(chunks))

(* C1: when the process has terminated, exactly one record has been        *)
(* written to standard output and its status is "success" or "failure",    *)
(* on every path (also when the credential request or the folder creation  *)
(* is rejected).                                                           *)
C1_ExactlyOneRecord ==
    Terminated =>
        /\ Len(stdout) = 1
        /\ stdout[1].status \in {"success", "failure"}

(* C2: a file of size N > 0 that is uploaded completely and is not         *)
(* modified meanwhile is sent as chunks [first, last] with first = 0 for   *)
(* the first, first = previous last + 1 for the others, each at most       *)
(* chunk_size long and only the final one shorter, the final last = N - 1, *)
(* lengths summing to N, and every request declaring total N.              *)
C2_ChunksPartitionFile ==
    \A i \in 1..Len(successfully_uploaded_files) :
        LET N == getsize(disk, files_to_upload[i])
            chunks == ChunksOf(i)
            n == Len(chunks)
        IN  (i \notin modified /\ N > 0) =>
                /\ n >= 1
                /\ chunks[1].first = 0
                /\ \A k \in 1..(n - 1) : chunks[k + 1].first = chunks[k].last + 1
                /\ \A k \in 1..n : /\ chunks[k].first <= chunks[k].last
                                   /\ ChunkLen(chunks[k]) <= chunk_size
                                   /\ chunks[k].total = N
                                   /\ chunks[k].status \in {200, 201, 202}
                /\ \A k \in 1..(n - 1) : ChunkLen(chunks[k]) = chunk_size
                /\ chunks[n].last = N - 1
                /\ SumLens(chunks) = N

(* A file of two windows, the second shorter, uploaded unmodified. *)
C2_Witness ==
    /\ pc = "upload"
    /\ successfully_uploaded_files = <<"a.zip">>
    /\ modified = {}
    /\ getsize(disk, "a.zip") = chunk_size + 1
    /\ Len(ChunksOf(1)) = 2

(* C3: the run aborts at the first failure: a request that was answered    *)
(* with a failure is the last request of the run and the process has       *)
(* ended; after a local file was found missing no request follows for it   *)
(* or any later file, and no invite; no request is sent twice.             *)
C3_AbortAtFirstFailure ==
    /\ \A k \in 1..Len(reqs) :
          ReqFailed(reqs[k]) => (k = Len(reqs) /\ Terminated /\ exit_code = 1)
    /\ \A k \in 1..Len(reqs), j \in 1..Len(reqs) :
          k < j => [reqs[k] EXCEPT !.status = 0] # [reqs[j] EXCEPT !.status = 0]
    /\ (Terminated /\ Len(stdout) = 1 /\ stdout[1].status = "failure"
            /\ stdout[1].error.path # "") =>
          \A k \in 1..Len(reqs) : reqs[k].kind # "invite" /\ reqs[k].file < file_index

(* The first chunk of the first of two files is refused while bytes remain. *)
C3_Witness ==
    /\ Terminated
    /\ Len(files_to_upload) = 2
    /\ file_index = 1
    /\ reqs[Len(reqs)].kind = "put_chunk"
    /\ reqs[Len(reqs)].status = 500
    /\ reqs[Len(reqs)].last + 1 < reqs[Len(reqs)].total

(* C4: get_or_create_folder is idempotent: called again with the same      *)
(* parent and name and nothing else touching the drive, it returns the     *)
(* identifier of the first call and issues no create request, whatever the *)
(* parent held initially.                                                  *)
C4_Idempotent ==
    \A k \in 2..Len(resolved.ids) :
        /\ resolved.ids[k] = resolved.ids[1]
        /\ ~resolved.creates[k]

(* The file whose size upload_file measured last: the one being uploaded,  *)
(* or the one just finished.                                               *)
LastOpened == IF pc = "chunk" THEN file_index ELSE file_index - 1

UploadBegun ==
    \/ pc = "chunk"
    \/ pc = "upload" /\ file_index > 1

(* C5 as stated: uploading a zero-length file issues exactly one chunk     *)
(* request, with the range 0-(-1) of total 0, after the session is opened. *)
C5_OneEmptyChunk ==
    (pc = "upload" /\ file_index > 1 /\ filesize = 0) =>
        /\ Len(ChunksOf(LastOpened)) = 1
        /\ ChunksOf(LastOpened)[1].first = 0
        /\ ChunksOf(LastOpened)[1].last = -1
        /\ ChunksOf(LastOpened)[1].total = 0

(* C5 amended: a file measured as zero-length gets its upload session and  *)
(* no chunk request at all; the loop is not entered and the file counts as *)
(* uploaded.                                                               *)
C5_NoChunkForEmptyFile ==
    (UploadBegun /\ filesize = 0) =>
        /\ ChunksOf(LastOpened) = <<>>
        /\ \E k \in 1..Len(reqs) :
              /\ reqs[k].kind = "create_upload_session"
              /\ reqs[k].file = LastOpened
              /\ ok(reqs[k].status)
        /\ ~ENABLED UploadChunk

(* An empty file went through upload_file. *)
C5_Witness ==
    /\ pc = "upload"
    /\ successfully_uploaded_files = <<"a.zip">>
    /\ getsize(disk, "a.zip") = 0
    /\ filesize = 0
    /\ modified = {}

InviteIssued == \E k \in 1..Len(reqs) : reqs[k].kind = "invite"
SomeReqFailed == \E k \in 1..Len(reqs) : ReqFailed(reqs[k])
SuccessEmitted == Len(stdout) = 1 /\ stdout[1].status = "success"
FailureEmitted == Len(stdout) = 1 /\ stdout[1].status = "failure"

(* C6: the exit code is 0 exactly when every stage succeeded and a success *)
(* record was emitted, and 1 for every failure, whichever stage fails; the *)
(* process has no exit code before it ends.                                *)
C6_ExitCode ==
    /\ ~Terminated => exit_code = NoCode
    /\ Terminated =>
        /\ exit_code \in {0, 1}
        /\ exit_code = 0 <=> SuccessEmitted
        /\ SomeReqFailed => exit_code = 1
        /\ ~InviteIssued => exit_code = 1
        /\ exit_code = 0 =>
              /\ ~SomeReqFailed
              /\ InviteIssued
              /\ successfully_uploaded_files = files_to_upload
              /\ share_link # NoLink

(* The sub folder could not be created: the run ends with code 1. *)
C6_Witness ==
    /\ Terminated
    /\ exit_code = 1
    /\ reqs[Len(reqs)].kind = "create_folder"
    /\ reqs[Len(reqs)].status = 403
    /\ glycoshield_id # NoId

(* The file at position i was sent completely: its session was opened and *)
(* accepted chunks cover it up to its declared size.                       *)
UploadedCompletely(i) ==
    /\ \E k \in 1..Len(reqs) :
          /\ reqs[k].kind = "create_upload_session"
          /\ reqs[k].file = i
          /\ ~ReqFailed(reqs[k])
    /\ \A k \in 1..Len(ChunksOf(i)) : ~ReqFailed(ChunksOf(i)[k])
    /\ \/ getsize(disk, files_to_upload[i]) = 0 /\ ChunksOf(i) = <<>>
       \/ /\ ChunksOf(i) # <<>>
          /\ ChunksOf(i)[Len(ChunksOf(i))].last + 1 = getsize(disk, files_to_upload[i])

(* C7: at most one invite request per run, issued only after every file of *)
(* the list was uploaded completely; it follows every upload-session and   *)
(* chunk request, and a run in which an upload fails issues none.          *)
C7_InviteAfterUploads ==
    /\ Cardinality({k \in 1..Len(reqs) : reqs[k].kind = "invite"}) <= 1
    /\ \A k \in 1..Len(reqs) :
          reqs[k].kind = "invite" =>
              /\ k = Len(reqs)
              /\ \A i \in 1..Len(files_to_upload) : UploadedCompletely(i)
              /\ successfully_uploaded_files = files_to_upload
    /\ (\E k \in 1..Len(reqs) : IsUploadReq(reqs[k]) /\ ReqFailed(reqs[k])) => ~InviteIssued

(* The invite of a run that uploaded two files, one of them in two chunks. *)
C7_Witness ==
    /\ Terminated
    /\ InviteIssued
    /\ Len(files_to_upload) = 2
    /\ Len(ChunksOf(1)) = 2
    /\ Len(ChunksOf(2)) = 1

LastReq == reqs[Len(reqs)]

InviteAnswered == reqs # <<>> /\ LastReq.kind = "invite" /\ LastReq.status < 400

NoPermissions(r) == ~r.has_value \/ r.value = <<>>

(* C8: an invite answered with success and an empty or absent list of      *)
(* permission records makes the run fail: one failure record with a        *)
(* non-empty error text, nothing else on stdout, no link, exit code 1.     *)
C8_EmptyPermissionsFail ==
    (Terminated /\ InviteAnswered /\ NoPermissions(LastReq)) =>
        /\ FailureEmitted
        /\ DOMAIN stdout[1] = {"status", "error"}
        /\ stdout[1].error.text # ""
        /\ share_link = NoLink
        /\ exit_code = 1

(* The invite body has no "value" at all. *)
C8_Witness ==
    /\ Terminated
    /\ InviteAnswered
    /\ ~LastReq.has_value

(* C9: with at least one permission record, a first record without a link  *)
(* or with a link without URL still gives a success record and exit code 0 *)
(* with a non-empty placeholder as invite_link; a first record with a URL  *)
(* gives exactly that URL, whatever records follow.                        *)
C9_FirstRecordLink ==
    (Terminated /\ InviteAnswered /\ ~NoPermissions(LastReq)) =>
        LET first == LastReq.value[1]
        IN  /\ SuccessEmitted
            /\ exit_code = 0
            /\ IF ~first.has_link \/ first.webUrl = NoUrl
               THEN /\ stdout[1].invite_link.text \notin {"", NoUrl}
                    /\ stdout[1].invite_link.text \notin Urls
               ELSE stdout[1].invite_link = Link(first.webUrl, NoId)

(* A first record without a link, followed by a record with a URL. *)
C9_Witness ==
    /\ Terminated
    /\ InviteAnswered
    /\ Len(LastReq.value) = 2
    /\ ~LastReq.value[1].has_link
    /\ LastReq.value[2].webUrl \in Urls

(* The first path of the list that was missing when the run started. *)
MissingAtStart(i) == ~exists(disk, files_to_upload[i]) \/ files_to_upload[i] \in created
MissingNow(i) == ~exists(disk, files_to_upload[i])

FailsOnMissing(i) ==
    /\ exit_code = 1
    /\ \A k \in 1..Len(reqs) : reqs[k].file # i
    /\ (~SomeReqFailed /\ \A j \in 1..(i - 1) : ~MissingNow(j)) =>
          /\ FailureEmitted
          /\ stdout[1].error.path = files_to_upload[i]
          /\ successfully_uploaded_files = SubSeq(files_to_upload, 1, i - 1)

(* C10 as stated: whenever a path of the input list does not exist locally *)
(* the run ends with exit code 1, and, the earlier stages having           *)
(* succeeded, with a failure record naming that path; no upload-session or *)
(* chunk request is issued for that file.                                  *)
C10_MissingFileFails ==
    Terminated =>
        \A i \in 1..Len(files_to_upload) : MissingAtStart(i) => FailsOnMissing(i)

(* C10 amended: the same for every path that is missing when upload_file   *)
(* checks it, that is every missing path except "test_upload.txt" given as *)
(* the whole list, which main() writes before the uploads.                 *)
C10_MissingFileFailsUnlessDefault ==
    /\ Terminated =>
          \A i \in 1..Len(files_to_upload) : MissingNow(i) => FailsOnMissing(i)
    /\ \A i \in 1..Len(files_to_upload) :
          (MissingAtStart(i) /\ ~MissingNow(i)) =>
              (files_to_upload = DEFAULT_FILES /\ pc \notin {"get_access_token", "base_folder",
                                                            "sub_folder", "prepare_files"})

(* The second file of the list is missing, the first was uploaded. *)
C10_Witness ==
    /\ Terminated
    /\ Len(files_to_upload) = 2
    /\ successfully_uploaded_files = <<files_to_upload[1]>>
    /\ MissingNow(2)
    /\ FailureEmitted
    /\ stdout[1].error.path = files_to_upload[2]

(* The positions in the request log of the upload requests. *)
UploadPositions == {k \in 1..Len(reqs) : IsUploadReq(reqs[k])}

(* C11: files are uploaded in the order of the input list and are never    *)
(* interleaved: the upload requests of the log are grouped by file in list *)
(* order, each file has one session request and it precedes the file's     *)
(* chunk requests, the chunk requests of a file have increasing offsets,   *)
(* every upload request names the path at its position of the list, and a  *)
(* success record reports exactly the input list, in order.                *)
C11_UploadsInListOrder ==
    /\ \A k \in UploadPositions, j \in UploadPositions :
          k < j =>
              /\ reqs[k].file <= reqs[j].file
              /\ reqs[j].kind = "create_upload_session" => reqs[k].file < reqs[j].file
              /\ (reqs[k].kind = "put_chunk" /\ reqs[j].kind = "put_chunk"
                    /\ reqs[k].file = reqs[j].file) => reqs[k].first < reqs[j].first
    /\ \A k \in UploadPositions :
          /\ reqs[k].file \in 1..Len(files_to_upload)
          /\ reqs[k].path = basename(files_to_upload[reqs[k].file])
          /\ reqs[k].kind = "put_chunk" =>
                \E j \in 1..(k - 1) : /\ reqs[j].kind = "create_upload_session"
                                       /\ reqs[j].file = reqs[k].file
    /\ successfully_uploaded_files =
          SubSeq(files_to_upload, 1, Len(successfully_uploaded_files))
    /\ SuccessEmitted => stdout[1].files_uploaded = files_to_upload

(* A successful run with two files, the first of them sent in two chunks. *)
C11_Witness ==
    /\ Terminated
    /\ SuccessEmitted
    /\ files_to_upload = <<"a.zip", "test_upload.txt">>
    /\ Len(ChunksOf(1)) = 2
    /\ Len(ChunksOf(2)) = 1

TokenPositions == {k \in 1..Len(reqs) : reqs[k].kind = "token"}

(* C12 as stated: the credential is requested exactly once per run, and    *)
(* every request issued after it is acquired (children listing, folder     *)
(* creation, upload session, each chunk upload, invite) carries it.        *)
C12_EveryRequestCarriesToken ==
    /\ pc # "get_access_token" => TokenPositions = {1}
    /\ \A k \in 2..Len(reqs) : reqs[k].auth = Headers(ACCESS_TOKEN)

(* C12 amended: the credential is requested exactly once, as the first     *)
(* request of the run; every children listing, folder creation, upload     *)
(* session and invite request carries the credential that was acquired;    *)
(* a chunk request, sent to the upload URL of its session, carries only    *)
(* Content-Length and Content-Range and no credential.                     *)
C12_TokenOnAllButChunks ==
    /\ pc # "get_access_token" => TokenPositions = {1}
    /\ pc = "get_access_token" => reqs = <<>>
    /\ \A k \in 2..Len(reqs) :
          IF reqs[k].kind = "put_chunk"
          THEN reqs[k].auth = NoToken
          ELSE /\ reqs[k].kind \in {"children", "create_folder",
                                    "create_upload_session", "invite"}
               /\ reqs[k].auth = token
               /\ token = ACCESS_TOKEN
               /\ ok(reqs[1].status)

(* A run that created both folders, uploaded a file and sent the invite. *)
C12_Witness ==
    /\ Terminated
    /\ InviteIssued
    /\ Cardinality({k \in 1..Len(reqs) : reqs[k].kind = "create_folder"}) = 2
    /\ \E k \in 1..Len(reqs) : reqs[k].kind = "put_chunk"

(* C13: with the default file list, no test_upload.txt on disk and every   *)
(* remote call succeeding, the run writes the placeholder file, uploads it *)
(* and reports it in files_uploaded of a success record; the placeholder   *)
(* is written only when the file list was not given on the command line    *)
(* and the file is absent: a file list given by the caller never makes the *)
(* run create a local file.                                                *)
C13_PlaceholderOnlyForDefault ==
    /\ (Terminated /\ ~files_overridden /\ "test_upload.txt" \in created
            /\ ~SomeReqFailed /\ ~NoPermissions(LastReq)) =>
          /\ SuccessEmitted
          /\ stdout[1].files_uploaded = <<"test_upload.txt">>
          /\ UploadedCompletely(1)
          /\ getsize(disk, "test_upload.txt") = DummyFileSize
    /\ (~files_overridden /\ pc \in {"upload", "chunk"}) => exists(disk, "test_upload.txt")
    /\ created \subseteq {"test_upload.txt"}
    /\ files_overridden => created = {}

(* The requests the program can issue; none of them removes anything. *)
RequestKinds ==
    {"token", "children", "create_folder", "create_upload_session", "put_chunk", "invite"}

(* The folder a create request made is on the drive, in its parent, under  *)
(* the requested name or a renamed variant of it.                          *)
FolderRemains(r) ==
    \E i \in 1..Len(drive) :
        /\ drive[i].folder
        /\ drive[i].parent = r.target
        /\ drive[i].name.text = r.folder_name.text

(* The file whose last bytes were accepted is on the drive, in the sub     *)
(* folder.                                                                 *)
FileRemains(r) ==
    \E i \in 1..Len(drive) :
        /\ ~drive[i].folder
        /\ drive[i].parent = subfolder_id
        /\ drive[i].name = Name(r.path)

(* C14: a failure after k >= 0 uploaded files neither rolls back nor       *)
(* reports the progress: the run issues no request other than listing,     *)
(* creation, upload and invite requests, every folder it created and every *)
(* file whose bytes it sent completely are still on the drive when it has  *)
(* failed, and the failure record has the fields status and error only.    *)
C14_NoRollbackNoReport ==
    /\ \A k \in 1..Len(reqs) : reqs[k].kind \in RequestKinds
    /\ (Terminated /\ exit_code = 1) =>
          /\ \A k \in 1..Len(reqs) :
                (reqs[k].kind = "create_folder" /\ ~ReqFailed(reqs[k])) =>
                    FolderRemains(reqs[k])
          /\ \A k \in 1..Len(reqs) :
                (reqs[k].kind = "put_chunk" /\ ~ReqFailed(reqs[k])
                    /\ reqs[k].last + 1 >= reqs[k].total) => FileRemains(reqs[k])
          /\ \A i \in 1..Len(successfully_uploaded_files) :
                ChunksOf(i) # <<>> => FileRemains(ChunksOf(i)[1])
          /\ Len(stdout) <= 1
          /\ Len(stdout) = 1 =>
                /\ DOMAIN stdout[1] = {"status", "error"}
                /\ stdout[1].status = "failure"

(* The invite is refused after the run created both folders and uploaded   *)
(* two files.                                                              *)
C14_Witness ==
    /\ Terminated
    /\ FailureEmitted
    /\ Len(successfully_uploaded_files) = 2
    /\ ChunksOf(1) # <<>>
    /\ LastReq.kind = "invite"
    /\ Cardinality({k \in 1..Len(reqs) : reqs[k].kind = "create_folder"}) = 2

(* The positions on the drive of the folders in a parent whose name equals *)
(* the requested one ignoring case, and the requests a step adds.          *)
FolderPositions(drv, parent_id, folder_name) ==
    {i \in 1..Len(drv) : /\ drv[i].parent = parent_id
                          /\ drv[i].folder
                          /\ lower(drv[i].name) = lower(folder_name)}

Lowest(S) == CHOOSE i \in S : \A j \in S : i <= j

(* C15: a call of get_or_create_folder issues a create request only after  *)
(* a miss: when the parent lists a folder whose name equals the requested  *)
(* one ignoring case, the call issues the listing request only, leaves the *)
(* drive alone and returns the identifier of the first such folder; an     *)
(* item of that name that is not a folder does not count; when no listed   *)
(* item matches, the listing request is followed by a create request, and  *)
(* the identifier returned is the one of the folder it made.               *)
C15_CreateOnlyAfterMiss ==
    [][reqs' # reqs =>
        LET new == SubSeq(reqs', Len(reqs) + 1, Len(reqs'))
            found == FolderPositions(drive, resolved.parent, resolved.name)
        IN  /\ new[1].kind = "children"
            /\ new[1].target = resolved.parent
            /\ new[1].folder_name = resolved.name
            /\ IF ~ok(new[1].status)
               THEN Len(new) = 1 /\ drive' = drive /\ resolved' = resolved
               ELSE IF found # {}
               THEN /\ Len(new) = 1
                    /\ drive' = drive
                    /\ resolved'.ids = Append(resolved.ids, drive[Lowest(found)].id)
               ELSE /\ Len(new) = 2
                    /\ new[2].kind = "create_folder"
                    /\ new[2].target = resolved.parent
                    /\ new[2].folder_name = resolved.name
                    /\ IF ~ok(new[2].status)
                       THEN drive' = drive /\ resolved' = resolved
                       ELSE /\ Len(drive') = Len(drive) + 1
                            /\ SubSeq(drive', 1, Len(drive)) = drive
                            /\ drive'[Len(drive')].folder
                            /\ drive'[Len(drive')].parent = resolved.parent
                            /\ \A i \in 1..Len(drive) : drive[i].id # drive'[Len(drive')].id
                            /\ resolved'.ids = Append(resolved.ids, drive'[Len(drive')].id)
    ]_vars

(* The root holds a file and, after it, a folder of the requested name:    *)
(* the call returned the folder and created nothing.                       *)
C15_Witness ==
    /\ resolved.parent = ROOT
    /\ resolved.name = Name(BASE_FOLDER_NAME)
    /\ drive = <<Item(1, Name("GlycoShield"), ROOT, FALSE), Item(2, Name("glycoshield"), ROOT, TRUE)>>
    /\ resolved.ids = <<2>>
    /\ resolved.creates = <<FALSE>>

(* The listing requests of the run, in order: one per folder resolution. *)
Resolutions == SelectSeq(reqs, LAMBDA r : r.kind = "children")

(* The item of the drive with the given identifier is a folder lying       *)
(* directly in the given parent.                                           *)
FolderIn(id, parent_id) ==
    \E i \in 1..Len(drive) :
        drive[i].id = id /\ drive[i].folder /\ drive[i].parent = parent_id

(* C16: the first folder resolution of a run targets the drive root and    *)
(* the second the identifier the first returned, so that the sub folder in *)
(* use is a folder lying directly in the base folder and the base folder   *)
(* directly in the root; a create request targets the parent just listed;  *)
(* every upload session and the invite target the identifier the second    *)
(* resolution returned, and the success record reports that identifier.    *)
C16_TwoLevelHierarchy ==
    /\ Len(Resolutions) <= 2
    /\ Len(Resolutions) >= 1 =>
          /\ Resolutions[1].target = ROOT
          /\ Resolutions[1].folder_name = Name(BASE_FOLDER_NAME)
    /\ Len(Resolutions) = 2 =>
          /\ glycoshield_id # NoId
          /\ Resolutions[2].target = glycoshield_id
          /\ Resolutions[2].folder_name = Name(sub_folder_name)
    /\ \A k \in 1..Len(reqs) :
          reqs[k].kind = "create_folder" =>
              /\ reqs[k - 1].kind = "children"
              /\ reqs[k - 1].target = reqs[k].target
              /\ reqs[k - 1].folder_name = reqs[k].folder_name
    /\ glycoshield_id # NoId => FolderIn(glycoshield_id, ROOT)
    /\ subfolder_id # NoId => FolderIn(subfolder_id, glycoshield_id)
    /\ \A k \in 1..Len(reqs) :
          reqs[k].kind \in {"create_upload_session", "invite"} =>
              /\ subfolder_id # NoId
              /\ reqs[k].target = subfolder_id
    /\ SuccessEmitted => stdout[1].sub_folder_id = subfolder_id

(* A successful run that found the base folder among two items of the root *)
(* and created the sub folder in it.                                       *)
C16_Witness ==
    /\ Terminated
    /\ SuccessEmitted
    /\ glycoshield_id = 2
    /\ subfolder_id = 3
    /\ Len(drive) >= 3
    /\ drive[3].parent = 2
    /\ \E k \in 1..Len(reqs) : reqs[k].kind = "create_upload_session"

Ceil(n, d) == (n + d - 1) \div d

(* C17: the chunk loop of upload_file terminates: with every chunk         *)
(* accepted the cursor grows at every iteration, also when a read returns  *)
(* fewer bytes than the window because the file is now shorter than the    *)
(* size measured before the loop, so that the file gets at most            *)
(* ceil(filesize / chunk_size) chunk requests and the loop ends with the   *)
(* cursor at the measured size.                                            *)
C17_ChunkLoopTerminates ==
    (UploadBegun /\ ~Terminated) =>
        LET chunks == ChunksOf(LastOpened)
        IN  /\ \A k \in 1..(Len(chunks) - 1) : chunks[k].first < chunks[k + 1].first
            /\ Len(chunks) <= Ceil(filesize, chunk_size)
            /\ pc = "upload" => start = filesize

(* C18: in every successful run the names of the success record identify   *)
(* the folders in use: the folder whose identifier is sub_folder_id has    *)
(* the reported sub_folder as its name, ignoring case, and lies directly   *)
(* in a folder whose name is the reported base_folder, ignoring case,      *)
(* whatever the drive held at the start, a non-folder item of the          *)
(* requested name included.                                                *)
C18_ReportedNamesIdentifyFolders ==
    SuccessEmitted =>
        \E i \in 1..Len(drive), j \in 1..Len(drive) :
            /\ drive[i].id = stdout[1].sub_folder_id
            /\ drive[i].folder
            /\ lower(drive[i].name) = lower(Name(stdout[1].sub_folder))
            /\ drive[j].id = drive[i].parent
            /\ drive[j].folder
            /\ lower(drive[j].name) = lower(Name(stdout[1].base_folder))

====
